---- MODULE Spec2Model ----
(***************************************************************************)
(* Nano Exhibition Manager (src/nano_expo_react_app (1)/src/App.jsx).      *)
(*                                                                         *)
(* The App component keeps one aggregate `data` (four collections), writes *)
(* it to localStorage under STORAGE_KEY in an effect after every change of *)
(* `data`, and reads it back on mount.  JavaScript values are modelled as  *)
(* tagged records; an object is the sequence of its <<key, value>> pairs   *)
(* in insertion order, which is the order JSON.stringify writes them in.   *)
(* Strings are TLA+ strings, read character by character with SubSeq.      *)
(***************************************************************************)
EXTENDS Integers, Sequences, FiniteSets, TLC

VARIABLES
    localStorage,   \* the browser's key-value store: a function key -> text
    data,           \* App's useState `data`: the aggregate
    dataRef,        \* "sampleData" when `data` is the sampleData object itself, else "fresh"
    q,              \* App's useState `q`: the search text
    selected,       \* App's useState `selected`: Null or {collection, item}
    pc,             \* "boot" before App renders, "rendered" (on screen, the
                    \* effect of line 80 still pending), "mounted" (the effect
                    \* has run), or "crashed" (render threw)
    last,           \* history: the last handler that ran, its arguments and the state before it
    steps           \* history: number of handlers run since mount

vars == <<localStorage, data, dataRef, q, selected, pc, last, steps>>

(***************************************************************************)
(* JavaScript values.                                                      *)
(***************************************************************************)
Undefined == [t |-> "undefined"]
Null == [t |-> "null"]
Bool(b) == [t |-> "boolean", b |-> b]
Num(n) == [t |-> "number", n |-> n]
Str(s) == [t |-> "string", s |-> s]
Arr(a) == [t |-> "array", a |-> a]
Obj(p) == [t |-> "object", p |-> p]

\* o.k / o[k]: the value of the object's own key k, undefined when it has none
\* (or when o is a primitive other than null/undefined, which has no such key).
Get(o, k) ==
    IF o.t = "object" /\ \E i \in 1..Len(o.p) : o.p[i][1] = k
    THEN o.p[CHOOSE i \in 1..Len(o.p) : o.p[i][1] = k][2]
    ELSE Undefined

HasKey(o, k) == o.t = "object" /\ \E i \in 1..Len(o.p) : o.p[i][1] = k

\* Assigning key k on a fresh copy of o: an existing key keeps its position,
\* a new key goes last.
Put(o, k, v) ==
    IF HasKey(o, k)
    THEN Obj([i \in 1..Len(o.p) |-> IF o.p[i][1] = k THEN <<k, v>> ELSE o.p[i]])
    ELSE Obj(Append(o.p, <<k, v>>))

\* {...a, ...b}: a's keys in a's order with b's values over them, then b's new keys.
RECURSIVE PutAll(_, _, _)
PutAll(o, pairs, i) ==
    IF i > Len(pairs) THEN o
    ELSE PutAll(Put(o, pairs[i][1], pairs[i][2]), pairs, i + 1)

Spread(a, b) == PutAll(Obj(a.p), b.p, 1)

(***************************************************************************)
(* Strings.                                                                *)
(***************************************************************************)
Char(s, i) == SubSeq(s, i, i)

UpperCaseLetters == "ABCDEFGHIJKLMNOPQRSTUVWXYZ"
LowerCaseLetters == "abcdefghijklmnopqrstuvwxyz"
UpperCaseSet == {Char(UpperCaseLetters, k) : k \in 1..26}
LowerCaseOf ==
    [c \in UpperCaseSet |->
        Char(LowerCaseLetters, CHOOSE k \in 1..26 : Char(UpperCaseLetters, k) = c)]

\* String.prototype.toLowerCase on the characters the model uses (ASCII).
RECURSIVE ToLowerCaseFrom(_, _)
ToLowerCaseFrom(s, i) ==
    IF i > Len(s) THEN ""
    ELSE LET c == Char(s, i)
         IN (IF c \in UpperCaseSet THEN LowerCaseOf[c] ELSE c) \o ToLowerCaseFrom(s, i + 1)

ToLowerCase(s) == ToLowerCaseFrom(s, 1)

\* String.prototype.includes
Includes(s, sub) ==
    \E i \in 1..(Len(s) - Len(sub) + 1) : SubSeq(s, i, i + Len(sub) - 1) = sub

Digits == "0123456789"
DigitSet == {Char(Digits, k) : k \in 1..10}
DigitValue == [c \in DigitSet |-> (CHOOSE k \in 1..10 : Char(Digits, k) = c) - 1]

RECURSIVE NatToString(_)
NatToString(n) ==
    IF n < 10 THEN Char(Digits, n + 1)
    ELSE NatToString(n \div 10) \o Char(Digits, (n % 10) + 1)

\* ToString as Array.prototype.join applies it to an element.
RECURSIVE JoinFrom(_, _, _)
ToStringForJoin(v) ==
    CASE v.t = "string" -> v.s
      [] v.t = "number" -> NatToString(v.n)
      [] v.t = "boolean" -> (IF v.b THEN "true" ELSE "false")
      [] v.t = "array" -> JoinFrom(v.a, ",", 1)
      [] v.t = "object" -> "[object Object]"
      [] OTHER -> ""

\* Array.prototype.join: undefined and null elements give the empty string.
JoinFrom(a, sep, i) ==
    IF i > Len(a) THEN ""
    ELSE ToStringForJoin(a[i])
         \o (IF i < Len(a) THEN sep ELSE "")
         \o JoinFrom(a, sep, i + 1)

Join(a, sep) == JoinFrom(a, sep, 1)

(***************************************************************************)
(* JSON.stringify and JSON.parse, on the values above.  Numbers are the    *)
(* non-negative integers; \u escapes, fractions, exponents and negative    *)
(* numbers are outside the texts the model feeds to JSON.parse.            *)
(***************************************************************************)
At(s, i) == IF 1 <= i /\ i <= Len(s) THEN SubSeq(s, i, i) ELSE ""

\* The first position from i on whose character is in `set`, Len(s) + 1 if none.
RECURSIVE NextIn(_, _, _)
NextIn(s, i, set) ==
    IF i > Len(s) \/ SubSeq(s, i, i) \in set THEN i ELSE NextIn(s, i + 1, set)

Quote == "\""
Backslash == "\\"
ControlChars == {"\n", "\t", "\r", "\f"}

\* The escapes JSON.stringify writes inside a string.
Escapes ==
    (Quote :> (Backslash \o Quote)) @@ (Backslash :> (Backslash \o Backslash))
    @@ ("\n" :> (Backslash \o "n")) @@ ("\t" :> (Backslash \o "t"))
    @@ ("\r" :> (Backslash \o "r")) @@ ("\f" :> (Backslash \o "f"))

EscapeSet == DOMAIN Escapes

\* Variant: no character is escaped.
EscapeCharNone(c) == c

EscapeChar(c) == IF c \in EscapeSet THEN Escapes[c] ELSE c

\* The characters from i on, each one escaped: runs of characters that need no
\* escape are copied whole.
RECURSIVE EscapeFrom(_, _)
EscapeFrom(s, i) ==
    LET j == NextIn(s, i, EscapeSet)
    IN IF j > Len(s) THEN SubSeq(s, i, Len(s))
       ELSE SubSeq(s, i, j - 1) \o EscapeChar(Char(s, j)) \o EscapeFrom(s, j + 1)

JSONQuote(s) == Quote \o EscapeFrom(s, 1) \o Quote

RECURSIVE JSONstringify(_)
RECURSIVE StringifyElements(_, _)
RECURSIVE StringifyMembers(_, _)

\* Array elements: undefined is written as null.
StringifyElements(a, i) ==
    IF i > Len(a) THEN ""
    ELSE (IF a[i].t = "undefined" THEN "null" ELSE JSONstringify(a[i]))
         \o (IF i < Len(a) THEN "," ELSE "")
         \o StringifyElements(a, i + 1)

\* Object members, `p` already without the members whose value is undefined.
StringifyMembers(p, i) ==
    IF i > Len(p) THEN ""
    ELSE JSONQuote(p[i][1]) \o ":" \o JSONstringify(p[i][2])
         \o (IF i < Len(p) THEN "," ELSE "")
         \o StringifyMembers(p, i + 1)

JSONstringify(v) ==
    CASE v.t = "string" -> JSONQuote(v.s)
      [] v.t = "number" -> NatToString(v.n)
      [] v.t = "boolean" -> (IF v.b THEN "true" ELSE "false")
      [] v.t = "null" -> "null"
      [] v.t = "array" -> "[" \o StringifyElements(v.a, 1) \o "]"
      [] v.t = "object" ->
            LET Defined(m) == m[2].t # "undefined"
            IN "{" \o StringifyMembers(SelectSeq(v.p, Defined), 1) \o "}"

ParseFail == [ok |-> FALSE, v |-> Undefined, i |-> 0]
ParseOk(v, i) == [ok |-> TRUE, v |-> v, i |-> i]

Whitespace == {" ", "\n", "\t", "\r"}

RECURSIVE SkipWS(_, _)
SkipWS(s, i) == IF At(s, i) \in Whitespace THEN SkipWS(s, i + 1) ELSE i

\* The character an escape \e inside a JSON string stands for ("" : not an escape).
Unescape(e) ==
    CASE e = Quote -> Quote
      [] e = Backslash -> Backslash
      [] e = "/" -> "/"
      [] e = "n" -> "\n"
      [] e = "t" -> "\t"
      [] e = "r" -> "\r"
      [] e = "f" -> "\f"
      [] OTHER -> ""

\* Inside a string literal a quote ends it, a backslash starts an escape and a
\* control character is a syntax error; anything else stands for itself.
StringStops == {Quote, Backslash} \cup ControlChars

\* The rest of a string literal from position i, after its opening quote.
RECURSIVE ParseStringFrom(_, _, _)
ParseStringFrom(s, i, acc) ==
    LET j == NextIn(s, i, StringStops)
        run == acc \o SubSeq(s, i, j - 1)
        c == At(s, j)
    IN CASE c = Quote -> ParseOk(Str(run), j + 1)
         [] c = Backslash ->
               IF Unescape(At(s, j + 1)) = "" THEN ParseFail
               ELSE ParseStringFrom(s, j + 2, run \o Unescape(At(s, j + 1)))
         [] OTHER -> ParseFail

RECURSIVE ParseDigits(_, _, _)
ParseDigits(s, i, acc) ==
    IF At(s, i) \in DigitSet
    THEN ParseDigits(s, i + 1, acc * 10 + DigitValue[At(s, i)])
    ELSE ParseOk(Num(acc), i)

ParseNumber(s, i) ==
    IF At(s, i) = "0" THEN ParseOk(Num(0), i + 1) ELSE ParseDigits(s, i, 0)

RECURSIVE ParseValue(_, _)
RECURSIVE ParseElements(_, _, _)
RECURSIVE ParseMembers(_, _, _)

\* Array elements from position i (no whitespace before it), `acc` read so far.
ParseElements(s, i, acc) ==
    LET r == ParseValue(s, i)
        k == SkipWS(s, r.i)
    IN IF ~r.ok THEN ParseFail
       ELSE CASE At(s, k) = "," -> ParseElements(s, k + 1, Append(acc, r.v))
              [] At(s, k) = "]" -> ParseOk(Arr(Append(acc, r.v)), k + 1)
              [] OTHER -> ParseFail

\* Object members from position i (at the key's quote), `acc` the object so far.
\* A repeated key keeps its first position and takes the last value.
ParseMembers(s, i, acc) ==
    IF At(s, i) # Quote THEN ParseFail
    ELSE LET key == ParseStringFrom(s, i + 1, "")
             c == SkipWS(s, key.i)
         IN IF ~key.ok \/ At(s, c) # ":" THEN ParseFail
            ELSE LET r == ParseValue(s, c + 1)
                     k == SkipWS(s, r.i)
                 IN IF ~r.ok THEN ParseFail
                    ELSE CASE At(s, k) = "," ->
                                ParseMembers(s, SkipWS(s, k + 1), Put(acc, key.v.s, r.v))
                           [] At(s, k) = "}" -> ParseOk(Put(acc, key.v.s, r.v), k + 1)
                           [] OTHER -> ParseFail

ParseValue(s, i0) ==
    LET i == SkipWS(s, i0)
        c == At(s, i)
    IN CASE c = Quote -> ParseStringFrom(s, i + 1, "")
         [] c \in DigitSet -> ParseNumber(s, i)
         [] c = "[" ->
               IF At(s, SkipWS(s, i + 1)) = "]"
               THEN ParseOk(Arr(<<>>), SkipWS(s, i + 1) + 1)
               ELSE ParseElements(s, i + 1, <<>>)
         [] c = "{" ->
               IF At(s, SkipWS(s, i + 1)) = "}"
               THEN ParseOk(Obj(<<>>), SkipWS(s, i + 1) + 1)
               ELSE ParseMembers(s, SkipWS(s, i + 1), Obj(<<>>))
         [] c = "n" /\ i + 3 <= Len(s) /\ SubSeq(s, i, i + 3) = "null" -> ParseOk(Null, i + 4)
         [] c = "t" /\ i + 3 <= Len(s) /\ SubSeq(s, i, i + 3) = "true" ->
               ParseOk(Bool(TRUE), i + 4)
         [] c = "f" /\ i + 4 <= Len(s) /\ SubSeq(s, i, i + 4) = "false" ->
               ParseOk(Bool(FALSE), i + 5)
         [] OTHER -> ParseFail

\* JSON.parse: [threw |-> TRUE] stands for the SyntaxError it throws.
JSONparse(text) ==
    LET r == ParseValue(text, 1)
    IN IF r.ok /\ SkipWS(text, r.i) = Len(text) + 1
       THEN [threw |-> FALSE, v |-> r.v]
       ELSE [threw |-> TRUE, v |-> Undefined]

(***************************************************************************)
(* The program's constants.                                                *)
(***************************************************************************)
STORAGE_KEY == "nano_exhibition_manager_v1"

sampleData ==
    Obj(<<
        <<"exhibitors", Arr(<<
            Obj(<< <<"id", Str("ex-1")>>, <<"name", Str("NanoTech Lab")>>,
                   <<"contact", Str("info@nanotech.example")>>, <<"booth", Str("A1")>>,
                   <<"notes", Str("Graphene demos")>> >>),
            Obj(<< <<"id", Str("ex-2")>>, <<"name", Str("Micro Instruments")>>,
                   <<"contact", Str("sales@micro.example")>>, <<"booth", Str("B2")>>,
                   <<"notes", Str("AFM & SEM")>> >>) >>)>>,
        <<"booths", Arr(<<
            Obj(<< <<"id", Str("b-A1")>>, <<"code", Str("A1")>>, <<"size", Str("3x3")>>,
                   <<"notes", Str("Near entrance")>> >>),
            Obj(<< <<"id", Str("b-B2")>>, <<"code", Str("B2")>>, <<"size", Str("3x2")>>,
                   <<"notes", Str("Corner")>> >>) >>)>>,
        <<"events", Arr(<<
            Obj(<< <<"id", Str("ev-1")>>, <<"title", Str("Opening Ceremony")>>,
                   <<"start", Str("2025-11-12T10:00")>>, <<"end", Str("2025-11-12T10:30")>>,
                   <<"location", Str("Main Hall")>>, <<"speaker", Str("Dr. A")>> >>) >>)>>,
        <<"attendees", Arr(<<
            Obj(<< <<"id", Str("at-1")>>, <<"name", Str("Ali Reza")>>,
                   <<"company", Str("NanoTech Lab")>>, <<"type", Str("Visitor")>>,
                   <<"email", Str("ali@example.com")>> >>) >>)>>
    >>)

Collections == {"exhibitors", "booths", "events", "attendees"}

(***************************************************************************)
(* localStorage: getItem gives null for an absent key, setItem replaces    *)
(* the value, removeItem drops the key.                                    *)
(***************************************************************************)
GetItem(ls, k) == IF k \in DOMAIN ls THEN Str(ls[k]) ELSE Null
SetItem(ls, k, text) == (k :> text) @@ ls
RemoveItem(ls, k) == [x \in (DOMAIN ls) \ {k} |-> ls[x]]

\* uid(prefix), `r` being Math.random().toString(36).slice(2, 9).
uid(prefix, r) == prefix \o "-" \o r

saveToStorage(ls, state) == SetItem(ls, STORAGE_KEY, JSONstringify(state))

\* loadFromStorage: the value returned, whether it is the sampleData object
\* itself, and whether the catch branch logged an error.  Never throws.
loadFromStorage(ls) ==
    LET raw == GetItem(ls, STORAGE_KEY)
        parsed == JSONparse(raw.s)
    IN IF raw.t = "null" \/ raw.s = ""
       THEN [v |-> sampleData, ref |-> "sampleData", logged |-> FALSE]
       ELSE IF parsed.threw
            THEN [v |-> sampleData, ref |-> "sampleData", logged |-> TRUE]
            ELSE [v |-> parsed.v, ref |-> "fresh", logged |-> FALSE]

(***************************************************************************)
(* Generic CRUD helpers: the updater each one hands to setData, as a       *)
(* function of the current aggregate d.                                    *)
(***************************************************************************)
\* Variant: the item is put first instead of last.
addItemFirst(d, collection, item) ==
    Put(d, collection, Arr(<<item>> \o Get(d, collection).a))

addItem(d, collection, item) ==
    Put(d, collection, Arr(Get(d, collection).a \o <<item>>))

\* Variant: an id that matches no record inserts the patch as a new record.
updateItemUpsert(d, collection, id, patch) ==
    LET list == Get(d, collection).a
    IN IF \E i \in 1..Len(list) : Get(list[i], "id") = id
       THEN Put(d, collection,
                Arr([i \in 1..Len(list) |->
                        IF Get(list[i], "id") = id THEN Spread(list[i], patch) ELSE list[i]]))
       ELSE Put(d, collection, Arr(Append(list, patch)))

updateItem(d, collection, id, patch) ==
    LET list == Get(d, collection).a
    IN Put(d, collection,
           Arr([i \in 1..Len(list) |->
                   IF Get(list[i], "id") = id THEN Spread(list[i], patch) ELSE list[i]]))

removeItem(d, collection, id) ==
    LET Keep(it) == Get(it, "id") # id
    IN Put(d, collection, Arr(SelectSeq(Get(d, collection).a, Keep)))

(***************************************************************************)
(* Simple filtered views.                                                  *)
(***************************************************************************)
\* Variant: the id is searched too.
filteredExhibitorsWithId(d, query) ==
    LET Test(e) ==
            Includes(ToLowerCase(Join(<<Get(e, "id"), Get(e, "name"), Get(e, "contact"),
                                        Get(e, "booth"), Get(e, "notes")>>, " ")),
                     ToLowerCase(query))
    IN SelectSeq(Get(d, "exhibitors").a, Test)

filteredExhibitors(d, query) ==
    LET Test(e) ==
            Includes(ToLowerCase(Join(<<Get(e, "name"), Get(e, "contact"),
                                        Get(e, "booth"), Get(e, "notes")>>, " ")),
                     ToLowerCase(query))
    IN SelectSeq(Get(d, "exhibitors").a, Test)

filteredBooths(d, query) ==
    LET Test(b) ==
            Includes(ToLowerCase(Join(<<Get(b, "code"), Get(b, "size"),
                                        Get(b, "notes")>>, " ")),
                     ToLowerCase(query))
    IN SelectSeq(Get(d, "booths").a, Test)

filteredEvents(d, query) ==
    LET Test(ev) ==
            Includes(ToLowerCase(Join(<<Get(ev, "title"), Get(ev, "location"),
                                        Get(ev, "speaker")>>, " ")),
                     ToLowerCase(query))
    IN SelectSeq(Get(d, "events").a, Test)

filteredAttendees(d, query) ==
    LET Test(a) ==
            Includes(ToLowerCase(Join(<<Get(a, "name"), Get(a, "company"),
                                        Get(a, "email"), Get(a, "type")>>, " ")),
                     ToLowerCase(query))
    IN SelectSeq(Get(d, "attendees").a, Test)

\* The list the view of collection c renders.
filtered(d, c, query) ==
    CASE c = "exhibitors" -> filteredExhibitors(d, query)
      [] c = "booths" -> filteredBooths(d, query)
      [] c = "events" -> filteredEvents(d, query)
      [] c = "attendees" -> filteredAttendees(d, query)

(***************************************************************************)
(* Bounds and the inputs the model draws from.                             *)
(***************************************************************************)
MaxSteps == 2       \* handlers run after mount (Spec)
MaxCalls == 2       \* store operations applied (StoreSpec)
MaxRandom == 2      \* distinct values Math.random() takes in uid

\* Outcomes of Math.random().toString(36).slice(2, 9).
RandomPool == <<"k3x9q2a", "0f7zj1m", "c8", "zzzzzzz">>
RandomSuffixes == {RandomPool[k] : k \in 1..MaxRandom}

Prefix == [exhibitors |-> "ex", booths |-> "b", events |-> "ev", attendees |-> "at"]

\* What the user typed into the add form of each view (useState `form`); the
\* first field is `required`, so it is never empty.
FormsOf(c) ==
    CASE c = "exhibitors" ->
            {Obj(<< <<"name", Str("Quantum \"Q\" Dots")>>, <<"contact", Str("")>>,
                    <<"booth", Str("A1")>>, <<"notes", Str("C:\\demo\nline 2")>> >>)}
      [] c = "booths" ->
            {Obj(<< <<"code", Str("C3")>>, <<"size", Str("4x4")>>, <<"notes", Str("")>> >>)}
      [] c = "events" ->
            {Obj(<< <<"title", Str("Panel")>>, <<"start", Str("2025-11-12T11:00")>>,
                    <<"end", Str("")>>, <<"location", Str("Room 4x4")>>,
                    <<"speaker", Str("")>> >>)}
      [] c = "attendees" ->
            {Obj(<< <<"name", Str("Jane Doe")>>, <<"company", Str("Acme")>>,
                    <<"email", Str("jane@acme.com")>>, <<"type", Str("Visitor")>> >>)}

\* What the user types into one input of the edit modal.
EditValues == {"4x4", "say \"hi\""}

\* What the user types into the search box.
Queries == {"", "example a1", "ex-1", "2025-11", "4X4"}

emptyAggregate ==
    Obj(<< <<"exhibitors", Arr(<<>>)>>, <<"booths", Arr(<<>>)>>,
           <<"events", Arr(<<>>)>>, <<"attendees", Arr(<<>>)>> >>)

\* An aggregate an earlier session left in storage.
storedAggregate ==
    Obj(<< <<"exhibitors", Arr(<<>>)>>,
           <<"booths", Arr(<< Obj(<< <<"id", Str("b-k3x9q2a")>>, <<"code", Str("C3")>>,
                                     <<"size", Str("2x2")>>, <<"notes", Str("")>> >>) >>)>>,
           <<"events", Arr(<<>>)>>,
           <<"attendees", Arr(<<>>)>> >>)

\* What STORAGE_KEY may hold when the page opens: nothing, an earlier
\* session's aggregate, or text that is not the serialization of an aggregate.
InitialStorages ==
    {<<>>}
    \cup {(STORAGE_KEY :> text) :
            text \in {"", "{", "null", "{}",
                      JSONstringify(emptyAggregate), JSONstringify(storedAggregate)}}

(***************************************************************************)
(* App.                                                                    *)
(***************************************************************************)
\* The body of App and its views read data.<collection>.filter(...) and then
\* fields of every element: rendering throws unless `d` is an object whose
\* four collections are arrays without null or undefined elements.
RenderOk(d) ==
    /\ d.t = "object"
    /\ \A c \in Collections :
          /\ Get(d, c).t = "array"
          /\ \A i \in 1..Len(Get(d, c).a) : Get(d, c).a[i].t \notin {"null", "undefined"}

NoLast ==
    [op |-> "none", collection |-> "", id |-> Undefined, arg |-> Undefined,
     answer |-> FALSE, logged |-> FALSE,
     pre |-> Undefined, preStorage |-> <<>>, preRef |-> "fresh"]

Ran(op, c, id, arg, answer) ==
    [op |-> op, collection |-> c, id |-> id, arg |-> arg,
     answer |-> answer, logged |-> FALSE,
     pre |-> data, preStorage |-> localStorage, preRef |-> dataRef]

Init ==
    /\ localStorage \in InitialStorages
    /\ data = Undefined
    /\ dataRef = "fresh"
    /\ q = ""
    /\ selected = Null
    /\ pc = "boot"
    /\ last = NoLast
    /\ steps = 0

\* setData(updater) followed by the effect of line 80: the updater builds a new
\* object, so `data` changes and saveToStorage runs before the next event.
SetData(d) ==
    /\ data' = d
    /\ dataRef' = "fresh"
    /\ localStorage' = saveToStorage(localStorage, d)

\* First render and commit: useState(loadFromStorage) and the page on screen,
\* unless rendering threw.  Storage is not written yet: the effect of line 80
\* is passive and runs in a later task.
Mount ==
    /\ pc = "boot"
    /\ LET loaded == loadFromStorage(localStorage)
       IN /\ data' = loaded.v
          /\ dataRef' = loaded.ref
          /\ last' = [Ran("mount", "", Undefined, Undefined, FALSE)
                        EXCEPT !.logged = loaded.logged]
          /\ pc' = IF RenderOk(loaded.v) THEN "rendered" ELSE "crashed"
    /\ UNCHANGED <<localStorage, q, selected, steps>>

\* The effect of the first render: useEffect(() => saveToStorage(data), [data]).
MountEffect ==
    /\ pc = "rendered"
    /\ localStorage' = saveToStorage(localStorage, data)
    /\ pc' = "mounted"
    /\ last' = Ran("effect", "", Undefined, Undefined, FALSE)
    /\ UNCHANGED <<data, dataRef, q, selected, steps>>

Running == pc = "mounted" /\ steps < MaxSteps

\* The first screen (dashboard and topbar) is usable before the pending effect
\* has run; its handlers only call setQ and setTab.
OnScreen == pc \in {"rendered", "mounted"} /\ steps < MaxSteps

\* Topbar: the search box's onChange.  React flushes a pending effect of the
\* first render before it renders the new q, within the same event: when the
\* event ends saveToStorage(data) has run and nothing is pending.
SetQ(v) ==
    /\ OnScreen
    /\ v # q
    /\ q' = v
    /\ IF pc = "rendered"
       THEN /\ localStorage' = saveToStorage(localStorage, data)
            /\ pc' = "mounted"
       ELSE UNCHANGED <<localStorage, pc>>
    /\ last' = Ran("setQ", "", Undefined, Str(v), FALSE)
    /\ steps' = steps + 1
    /\ UNCHANGED <<data, dataRef, selected>>

\* submit of ExhibitorsView, BoothsView, EventsView and AttendeesView.
NewItem(c, form, r) == Spread(Obj(<< <<"id", Str(uid(Prefix[c], r))>> >>), form)

Submit(c, form, r) ==
    /\ Running
    /\ SetData(addItem(data, c, NewItem(c, form, r)))
    /\ last' = Ran("submit", c, Get(NewItem(c, form, r), "id"), NewItem(c, form, r), FALSE)
    /\ steps' = steps + 1
    /\ UNCHANGED <<q, selected, pc>>

\* Variant: the answer to the prompt is ignored.
DeleteHandlerNoConfirm(d, c, id, answer) == [called |-> TRUE, d |-> removeItem(d, c, id)]

\* The Delete button of a row: if(confirm(...)) removeItem(c, id).
\* `called` tells whether setData ran.
DeleteHandler(d, c, id, answer) ==
    IF answer THEN [called |-> TRUE, d |-> removeItem(d, c, id)]
    ELSE [called |-> FALSE, d |-> d]

DeleteClick(c, i, answer) ==
    /\ Running
    /\ i \in 1..Len(filtered(data, c, q))
    /\ LET it == filtered(data, c, q)[i]
           res == DeleteHandler(data, c, Get(it, "id"), answer)
       IN /\ IF res.called THEN SetData(res.d)
             ELSE UNCHANGED <<data, dataRef, localStorage>>
          /\ last' = Ran("delete", c, Get(it, "id"), Undefined, answer)
    /\ steps' = steps + 1
    /\ UNCHANGED <<q, selected, pc>>

\* The Edit button of a row: setSelected({collection, item}).
EditOpen(c, i) ==
    /\ Running
    /\ i \in 1..Len(filtered(data, c, q))
    /\ selected' = [t |-> "object", collection |-> c, item |-> filtered(data, c, q)[i]]
    /\ last' = Ran("edit", c, Get(filtered(data, c, q)[i], "id"), Undefined, FALSE)
    /\ steps' = steps + 1
    /\ UNCHANGED <<localStorage, data, dataRef, q, pc>>

\* EditModal's form: a copy of the selected item, with at most one input retyped
\* (the id has no input).
EditedForms(item) ==
    {item} \cup
    {Put(item, item.p[k][1], Str(v)) :
        k \in {j \in 1..Len(item.p) : item.p[j][1] # "id"}, v \in EditValues}

\* EditModal.save: updateItem(collection, item.id, form); setSelected(null).
EditSave ==
    /\ Running
    /\ selected # Null
    /\ \E form \in EditedForms(selected.item) :
          /\ SetData(updateItem(data, selected.collection, Get(selected.item, "id"), form))
          /\ last' = Ran("save", selected.collection, Get(selected.item, "id"), form, FALSE)
    /\ selected' = Null
    /\ steps' = steps + 1
    /\ UNCHANGED <<q, pc>>

\* EditModal's Cancel button.
EditCancel ==
    /\ Running
    /\ selected # Null
    /\ selected' = Null
    /\ last' = Ran("cancel", "", Undefined, Undefined, FALSE)
    /\ steps' = steps + 1
    /\ UNCHANGED <<localStorage, data, dataRef, q, pc>>

\* Variant: the reset clears storage but does not call setData(sampleData).
ResetHandlerStorageOnly(ls, d, ref, answer) ==
    IF ~answer THEN [ls |-> ls, d |-> d, ref |-> ref]
    ELSE [ls |-> RemoveItem(ls, STORAGE_KEY), d |-> d, ref |-> ref]

\* SettingsView's reset button:
\*   if(confirm(...)){ localStorage.removeItem(STORAGE_KEY); setData(sampleData); }
\* setData with the object `data` already is changes nothing, so the effect
\* (and with it saveToStorage) does not run.
ResetHandler(ls, d, ref, answer) ==
    IF ~answer THEN [ls |-> ls, d |-> d, ref |-> ref]
    ELSE IF ref = "sampleData"
         THEN [ls |-> RemoveItem(ls, STORAGE_KEY), d |-> d, ref |-> ref]
         ELSE [ls |-> saveToStorage(RemoveItem(ls, STORAGE_KEY), sampleData),
               d |-> sampleData, ref |-> "sampleData"]

ResetClick(answer) ==
    /\ Running
    /\ LET res == ResetHandler(localStorage, data, dataRef, answer)
       IN /\ localStorage' = res.ls
          /\ data' = res.d
          /\ dataRef' = res.ref
    /\ last' = Ran("reset", "", Undefined, Undefined, answer)
    /\ steps' = steps + 1
    /\ UNCHANGED <<q, selected, pc>>

\* The rows the view of collection c shows (nothing before App has mounted).
Rows(c) == IF pc = "mounted" THEN 1..Len(filtered(data, c, q)) ELSE {}

\* Which view is shown (`tab`) only decides which of these handlers is on
\* screen; setTab changes nothing else, so every handler is one click away
\* once the first effect has run (a tab click flushes the pending effect
\* before the new view is rendered).
\* The edit modal is an overlay without a focus trap: the handlers beneath it
\* stay reachable from the keyboard while `selected` is set.
Next ==
    \/ Mount
    \/ MountEffect
    \/ \E v \in Queries : SetQ(v)
    \/ \E c \in Collections : \E form \in FormsOf(c) : \E r \in RandomSuffixes :
          Submit(c, form, r)
    \/ \E c \in Collections : \E i \in Rows(c) : \E answer \in BOOLEAN :
          DeleteClick(c, i, answer)
    \/ \E c \in Collections : \E i \in Rows(c) : EditOpen(c, i)
    \/ EditSave
    \/ EditCancel
    \/ \E answer \in BOOLEAN : ResetClick(answer)

Spec == Init /\ [][Next]_vars

(***************************************************************************)
(* The store operations on their own: addItem, updateItem, removeItem and  *)
(* the filters applied to arguments drawn from bounded sets, each followed *)
(* by the effect that saves the new aggregate.                             *)
(***************************************************************************)
StoreAggregates == {sampleData, emptyAggregate, storedAggregate}

Elements(d, c) == {Get(d, c).a[i] : i \in 1..Len(Get(d, c).a)}

\* Items handed to addItem: one built the way submit builds it, one without id.
StoreItems(c) ==
    {NewItem(c, form, RandomPool[1]) : form \in FormsOf(c)} \cup FormsOf(c)

\* Ids handed to updateItem and removeItem: those present, and one that is not.
StoreIds(d, c) == {Get(it, "id") : it \in Elements(d, c)} \cup {Str("no-such-id")}

StorePatches ==
    {Obj(<< <<"size", Str("4x4")>> >>),
     Obj(<< <<"id", Str("zz")>>, <<"notes", Str("say \"hi\"")>> >>)}

StoreInit ==
    /\ data \in StoreAggregates
    /\ localStorage = saveToStorage(<<>>, data)
    /\ dataRef = "fresh"
    /\ q = ""
    /\ selected = Null
    /\ pc = "mounted"
    /\ last = NoLast
    /\ steps = 0

Calling == pc = "mounted" /\ steps < MaxCalls

CallAddItem(c, item) ==
    /\ Calling
    /\ SetData(addItem(data, c, item))
    /\ last' = Ran("addItem", c, Undefined, item, FALSE)
    /\ steps' = steps + 1
    /\ UNCHANGED <<q, selected, pc>>

CallUpdateItem(c, id, patch) ==
    /\ Calling
    /\ SetData(updateItem(data, c, id, patch))
    /\ last' = Ran("updateItem", c, id, patch, FALSE)
    /\ steps' = steps + 1
    /\ UNCHANGED <<q, selected, pc>>

CallRemoveItem(c, id) ==
    /\ Calling
    /\ SetData(removeItem(data, c, id))
    /\ last' = Ran("removeItem", c, id, Undefined, FALSE)
    /\ steps' = steps + 1
    /\ UNCHANGED <<q, selected, pc>>

CallFilter(query) ==
    /\ Calling
    /\ query # q
    /\ q' = query
    /\ last' = Ran("filter", "", Undefined, Str(query), FALSE)
    /\ steps' = steps + 1
    /\ UNCHANGED <<localStorage, data, dataRef, selected, pc>>

StoreNext ==
    \/ \E c \in Collections : \E item \in StoreItems(c) : CallAddItem(c, item)
    \/ \E c \in Collections : \E id \in StoreIds(data, c) : \E patch \in StorePatches :
          CallUpdateItem(c, id, patch)
    \/ \E c \in Collections : \E id \in StoreIds(data, c) : CallRemoveItem(c, id)
    \/ \E query \in Queries : CallFilter(query)

StoreSpec == StoreInit /\ [][StoreNext]_vars

(***************************************************************************)
(* Vocabulary of the properties.                                           *)
(***************************************************************************)
List(d, c) == Get(d, c).a

OthersUnchanged(pre, post, c) ==
    \A other \in Collections \ {c} : Get(post, other) = Get(pre, other)

HasId(list, id) == \E i \in 1..Len(list) : Get(list[i], "id") = id

Keys(o) == {o.p[i][1] : i \in 1..Len(o.p)}

\* A flat record: an object whose fields are all strings.
IsFlatRecord(v) ==
    v.t = "object" /\ \A i \in 1..Len(v.p) : v.p[i][2].t = "string"

\* A well-formed aggregate: exactly the four collections, each an array of flat records.
WellFormedAggregate(v) ==
    /\ v.t = "object"
    /\ Keys(v) = Collections
    /\ Len(v.p) = 4
    /\ \A c \in Collections :
          /\ Get(v, c).t = "array"
          /\ \A i \in 1..Len(Get(v, c).a) : IsFlatRecord(Get(v, c).a[i])

(***************************************************************************)
(* C1.  addItem(c, item) makes item the last element of collection c,      *)
(* keeps the records c already had, unchanged and in their order (so the   *)
(* length grows by exactly one), and leaves the other three collections    *)
(* unchanged.                                                              *)
(***************************************************************************)
C1_AddItemAppends ==
    last.op = "addItem" =>
        LET pre == List(last.pre, last.collection)
            post == List(data, last.collection)
        IN /\ Len(post) = Len(pre) + 1
           /\ post[Len(post)] = last.arg
           /\ SubSeq(post, 1, Len(pre)) = pre
           /\ OthersUnchanged(last.pre, data, last.collection)
           /\ Keys(data) = Keys(last.pre)

C1_Witness ==
    /\ last.op = "addItem"
    /\ Len(List(last.pre, last.collection)) = 2
    /\ Len(List(data, last.collection)) = 3

(***************************************************************************)
(* C2.  A record created by a form submission (uid, then addItem) has an   *)
(* id distinct from the id of every record already in that collection, and *)
(* so no two records of one collection ever share an id.                   *)
(***************************************************************************)
NoDuplicateIds(list) ==
    \A i, j \in 1..Len(list) : i # j => Get(list[i], "id") # Get(list[j], "id")

C2_SubmittedIdIsFresh ==
    /\ last.op = "submit" => ~HasId(List(last.pre, last.collection), last.id)
    /\ pc = "mounted" => \A c \in Collections : NoDuplicateIds(List(data, c))

(***************************************************************************)
(* C3.  When a record with that id exists in c, updateItem(c, id, patch)   *)
(* yields, at the same position, a record whose fields named in patch take *)
(* the patch values and whose other fields keep their values, whose id is  *)
(* unchanged even when patch holds an id field; the length of c, the       *)
(* records with another id and the other collections are unchanged.        *)
(***************************************************************************)
PatchedAsClaimed(before, after, patch) ==
    /\ \A k \in Keys(patch) \ {"id"} : Get(after, k) = Get(patch, k)
    /\ \A k \in Keys(before) \ Keys(patch) : Get(after, k) = Get(before, k)
    /\ Get(after, "id") = Get(before, "id")

C3_UpdateMergesAndKeepsId ==
    (last.op = "updateItem" /\ HasId(List(last.pre, last.collection), last.id)) =>
        LET pre == List(last.pre, last.collection)
            post == List(data, last.collection)
        IN /\ Len(post) = Len(pre)
           /\ \A i \in 1..Len(pre) :
                 IF Get(pre[i], "id") = last.id
                 THEN PatchedAsClaimed(pre[i], post[i], last.arg)
                 ELSE post[i] = pre[i]
           /\ OthersUnchanged(last.pre, data, last.collection)

(***************************************************************************)
(* C4.  For an id no record of c carries, updateItem(c, id, patch) and     *)
(* removeItem(c, id) leave the whole aggregate unchanged, and applying     *)
(* either again changes nothing either.                                    *)
(***************************************************************************)
C4_MissingIdIsNoOp ==
    (/\ last.op \in {"updateItem", "removeItem"}
     /\ ~HasId(List(last.pre, last.collection), last.id)) =>
        /\ data = last.pre
        /\ last.op = "updateItem" =>
              updateItem(data, last.collection, last.id, last.arg) = data
        /\ last.op = "removeItem" => removeItem(data, last.collection, last.id) = data

C4_Witness ==
    /\ last.op = "updateItem"
    /\ last.id = Str("no-such-id")
    /\ Len(List(last.pre, last.collection)) = 2
    /\ data = last.pre

(***************************************************************************)
(* C5.  When a record with that id exists in c, removeItem(c, id) makes c  *)
(* exactly one shorter, removes no record with another id, keeps the order *)
(* of those that remain and leaves the other collections unchanged.        *)
(***************************************************************************)
C5_RemoveDropsExactlyOne ==
    (/\ last.op \in {"delete", "removeItem"}
     /\ last.op = "delete" => last.answer
     /\ HasId(List(last.pre, last.collection), last.id)) =>
        LET pre == List(last.pre, last.collection)
            post == List(data, last.collection)
            Other(it) == Get(it, "id") # last.id
        IN /\ Len(post) = Len(pre) - 1
           /\ SelectSeq(pre, Other) = SelectSeq(post, Other)
           /\ OthersUnchanged(last.pre, data, last.collection)

(***************************************************************************)
(* C6.  After every completed mutation (a submit, a save, a confirmed      *)
(* delete or a confirmed reset) the text stored under STORAGE_KEY is the   *)
(* serialization of the in-memory aggregate: never stale, never missing.   *)
(***************************************************************************)
C6_StorageFollowsData ==
    (\/ last.op \in {"submit", "save"}
     \/ last.op \in {"delete", "reset"} /\ last.answer) =>
        /\ STORAGE_KEY \in DOMAIN localStorage
        /\ localStorage[STORAGE_KEY] = JSONstringify(data)

(***************************************************************************)
(* C7.  When STORAGE_KEY is absent, or holds text that is not the          *)
(* serialization of a well-formed aggregate (empty, unparseable, corrupt), *)
(* load() returns the bundled sample aggregate.                            *)
(***************************************************************************)
HoldsAggregate(ls) ==
    /\ STORAGE_KEY \in DOMAIN ls
    /\ LET parsed == JSONparse(ls[STORAGE_KEY])
       IN ~parsed.threw /\ WellFormedAggregate(parsed.v)

C7_LoadFallsBackToSample ==
    (last.op = "mount" /\ ~HoldsAggregate(last.preStorage)) => data = sampleData

(***************************************************************************)
(* C8.  For every well-formed aggregate, the empty one included, save      *)
(* followed by load returns an equal aggregate: the same collections,      *)
(* records, field values and order.                                        *)
(***************************************************************************)
\* Every store operation ends in saveToStorage(data); loadFromStorage is
\* applied to what it wrote.
Saved(ls, d) == STORAGE_KEY \in DOMAIN ls /\ ls = saveToStorage(ls, d)

C8_SaveLoadRoundTrip ==
    (pc = "mounted" /\ WellFormedAggregate(data)) =>
        loadFromStorage(localStorage).v = data

C8_Witness ==
    /\ last.op = "removeItem"
    /\ last.pre # emptyAggregate
    /\ data = emptyAggregate
    /\ Saved(localStorage, data)
    /\ loadFromStorage(localStorage).v = emptyAggregate

(***************************************************************************)
(* C9.  A delete or a reset changes the aggregate or the stored text only  *)
(* after the user accepted the confirmation prompt; when the user declines *)
(* both are as they were.                                                  *)
(***************************************************************************)
C9_DeclinedPromptChangesNothing ==
    (last.op \in {"delete", "reset"} /\ ~last.answer) =>
        /\ data = last.pre
        /\ localStorage = last.preStorage

C9_Witness ==
    /\ last.op = "delete"
    /\ ~last.answer
    /\ HasId(List(data, last.collection), last.id)
    /\ steps = 2

(***************************************************************************)
(* C10.  filter(c, q) is, in the collection's order, exactly the records   *)
(* for which q is a case-insensitive substring of the text of the          *)
(* collection's search fields; a value found only in a field outside them  *)
(* (id, start, end) gives no match, and filter(c, "") is the collection.   *)
(***************************************************************************)
SearchFields ==
    [exhibitors |-> <<"name", "contact", "booth", "notes">>,
     booths |-> <<"code", "size", "notes">>,
     events |-> <<"title", "location", "speaker">>,
     attendees |-> <<"name", "company", "email", "type">>]

SearchText(c, rec) ==
    Join([k \in 1..Len(SearchFields[c]) |-> Get(rec, SearchFields[c][k])], " ")

SameLetter(a, b) ==
    \/ a = b
    \/ a \in UpperCaseSet /\ LowerCaseOf[a] = b
    \/ b \in UpperCaseSet /\ LowerCaseOf[b] = a

CaseInsensitiveSubstring(sub, text) ==
    \E i \in 1..(Len(text) - Len(sub) + 1) :
        \A k \in 1..Len(sub) : SameLetter(Char(text, i + k - 1), Char(sub, k))

\* q occurs, whatever the case, in a field of rec that is not a search field.
OccursOutside(c, rec, query) ==
    \E i \in 1..Len(rec.p) :
        /\ \A k \in 1..Len(SearchFields[c]) : SearchFields[c][k] # rec.p[i][1]
        /\ CaseInsensitiveSubstring(query, rec.p[i][2].s)

C10_FilterIsCaseInsensitiveSubstring ==
    pc = "mounted" =>
        \A c \in Collections :
            LET Matches(rec) == CaseInsensitiveSubstring(q, SearchText(c, rec))
                result == filtered(data, c, q)
            IN /\ result = SelectSeq(List(data, c), Matches)
               /\ q = "" => result = List(data, c)
               /\ \A i \in 1..Len(List(data, c)) :
                     (/\ OccursOutside(c, List(data, c)[i], q)
                      /\ ~Matches(List(data, c)[i]))
                     => \A j \in 1..Len(result) : result[j] # List(data, c)[i]

C10_Witness ==
    /\ q = "example a1"
    /\ Len(List(data, "exhibitors")) = 3
    /\ Len(filtered(data, "exhibitors", q)) = 1
    /\ filtered(data, "exhibitors", "") = List(data, "exhibitors")

(***************************************************************************)
(* C11.  After a confirmed reset, whatever add, update and remove          *)
(* operations came before it (none included), the in-memory aggregate is   *)
(* the bundled sample data with its original field values, and a load()    *)
(* made afterwards returns that same aggregate; the sampleData object      *)
(* itself is never altered: whenever `data` is that object, it still has   *)
(* its original content.                                                   *)
(***************************************************************************)
C11_ResetRestoresSampleData ==
    /\ (last.op = "reset" /\ last.answer) =>
          /\ data = sampleData
          /\ Len(List(data, "exhibitors")) = 2
          /\ Len(List(data, "booths")) = 2
          /\ Len(List(data, "events")) = 1
          /\ Len(List(data, "attendees")) = 1
          /\ loadFromStorage(localStorage).v = sampleData
    /\ dataRef = "sampleData" => data = sampleData

C11_Witness ==
    /\ last.op = "reset"
    /\ last.answer
    /\ steps = 2
    /\ last.pre # sampleData
    /\ data = sampleData
    /\ loadFromStorage(localStorage).v = sampleData

====
